---- MODULE Spec2Model ----
(***************************************************************************)
(* Inlay hints core: src/vs/editor/contrib/inlayHints/inlayHints.ts        *)
(*                                                                         *)
(* InlayHintItem (resolve de-duplication), InlayHintsFragments (concurrent *)
(* collection, anchor placement, merged change signal, dispose).           *)
(*                                                                         *)
(* JavaScript runs one job at a time: every action below is one job (the   *)
(* synchronous part of a call, or one promise continuation).               *)
(***************************************************************************)
EXTENDS Integers, Sequences, FiniteSets, TLC

\* ---------------------------------------------------------------- bounds
MaxCalls == 3        \* resolve() calls issued in one behaviour
MaxCopies == 1       \* with() copies made in one behaviour
MaxListLen == 1      \* hints in one InlayHintList
NumProviders == 2    \* providers the registry returns for the model
NumRanges == 2       \* ranges handed to create
NumHints == 2        \* hints of the fragment set of SpecSet
MaxSetCalls == 2     \* resolve() calls issued in one behaviour of SpecSet
MaxListeners == 1    \* listeners attached to onDidReceiveProviderSignal
MaxFires == 2        \* firings of providers' onDidChangeInlayHints
MaxLineLen == 4      \* characters of a line of the documents of SpecAnchor

Providers == 1..NumProviders
Ranges == 1..NumRanges

\* a value that is undefined (or null) in the program
Undefined == "undefined"
\* no promise / no object
None == 0

\* ------------------------------------------------------------- positions
\* Position.compare: by line, then by column
PositionCompare(a, b) ==
  IF a[1] = b[1] THEN a[2] - b[2] ELSE a[1] - b[1]

\* Position.isBefore: strictly before
IsBefore(a, b) == a[1] < b[1] \/ (a[1] = b[1] /\ a[2] < b[2])

\* new Range(startLine, startColumn, endLine, endColumn): the constructor
\* swaps the endpoints when the start is after the end
NewRange(sl, sc, el, ec) ==
  IF sl > el \/ (sl = el /\ sc > ec)
    THEN [sl |-> el, sc |-> ec, el |-> sl, ec |-> sc]
    ELSE [sl |-> sl, sc |-> sc, el |-> el, ec |-> ec]

\* Range.fromPositions(start, end)
RangeFromPositions(s, e) == NewRange(s[1], s[2], e[1], e[2])

GetStartPosition(r) == <<r.sl, r.sc>>
GetEndPosition(r) == <<r.el, r.ec>>

\* ------------------------------------------------------------ text model
\* A line: its length, its words (startColumn, endColumn) and the end
\* offsets of its tokens (token k spans [end of token k-1, its end offset)).
\*   line 1: "foo. bar"  tokens "foo" "." " bar"
\*   line 2: ""          one empty token
\*   line 3: "(.)"       tokens "(" "." ")"
Doc ==
  << [len |-> 8, words |-> {<<1, 4>>, <<6, 9>>}, tokens |-> <<3, 4, 8>>],
     [len |-> 0, words |-> {}, tokens |-> <<0>>],
     [len |-> 3, words |-> {}, tokens |-> <<1, 2, 3>>] >>

Docs == {Doc}

\* the elements of a set of numbers in increasing order
RECURSIVE SeqOfSet(_)
SeqOfSet(S) ==
  IF S = {} THEN <<>>
  ELSE LET x == CHOOSE y \in S : \A z \in S : y <= z
       IN <<x>> \o SeqOfSet(S \ {x})

\* every way to cut a line of len characters into non-empty tokens; an empty
\* line has one empty token
TokensOf(len) ==
  IF len = 0 THEN {<<0>>}
  ELSE {SeqOfSet(S \cup {len}) : S \in SUBSET (1..(len - 1))}

\* no word, or one word anywhere in the line
WordsOf(len) ==
  {{}} \cup UNION {{{<<a, b>>} : b \in (a + 1)..(len + 1)} : a \in 1..len}

Lines ==
  UNION {[len : {n}, words : WordsOf(n), tokens : TokensOf(n)] : n \in 0..MaxLineLen}

EmptyLine == [len |-> 0, words |-> {}, tokens |-> <<0>>]

\* the documents of SpecAnchor: any line followed by an empty line, and Doc
AnchorDocs == {<<l, EmptyLine>> : l \in Lines} \cup {Doc}

\* the positions hints are given at, positions outside the document included
AnchorPositions == (0..4) \X (0..(MaxLineLen + 2))

Min(a, b) == IF a < b THEN a ELSE b
Max(a, b) == IF a > b THEN a ELSE b

\* ITextModel.validatePosition: clamp into the document
ValidatePosition(m, p) ==
  LET l == Max(1, Min(p[1], Len(m)))
  IN <<l, Max(1, Min(p[2], m[l].len + 1))>>

\* ITextModel.getWordAtPosition: the word containing or touching the column
WordsAt(m, p) == {w \in m[p[1]].words : w[1] <= p[2] /\ p[2] <= w[2]}
\* line 132 never taking the word
HasWordNever(m, p) == FALSE
\* line 132: if (word)
HasWordAt(m, p) == WordsAt(m, p) # {}
GetWordAtPosition(m, p) ==
  CHOOSE w \in WordsAt(m, p) : \A v \in WordsAt(m, p) : w[1] <= v[1]

\* LineTokens
GetCount(toks) == Len(toks)
\* token indices are 0-based in the program
GetStartOffset(toks, idx) == IF idx = 0 THEN 0 ELSE toks[idx]
GetEndOffset(toks, idx) == toks[idx + 1]
\* LineTokens.findTokenIndexAtOffset: the token containing the offset, the
\* last token when the offset is at or past the end of the line
FindTokenIndexAtOffset(toks, offset) ==
  LET hit == {i \in 0..(Len(toks) - 1) :
                GetStartOffset(toks, i) <= offset /\ offset < GetEndOffset(toks, i)}
  IN IF hit = {} THEN Len(toks) - 1
     ELSE CHOOSE i \in hit : \A j \in hit : i <= j

\* InlayHintsFragments._getRangeAtPosition, the token branch (lines 137-158)
TokenRangeAtPosition(m, position) ==
  LET line == position[1]
      toks == m[line].tokens
      offset == position[2] - 1
      idx == FindTokenIndexAtOffset(toks, offset)
      start == GetStartOffset(toks, idx)
      end == GetEndOffset(toks, idx)
  IN IF end - start = 1 /\ start = offset /\ idx > 1
       THEN NewRange(line, GetStartOffset(toks, idx - 1) + 1,
                     line, GetEndOffset(toks, idx - 1) + 1)
     ELSE IF end - start = 1 /\ end = offset /\ idx < GetCount(toks) - 1
       THEN NewRange(line, GetStartOffset(toks, idx + 1) + 1,
                     line, GetEndOffset(toks, idx + 1) + 1)
     ELSE NewRange(line, start + 1, line, end + 1)

\* InlayHintsFragments._getRangeAtPosition
GetRangeAtPosition(m, position) ==
  IF HasWordAt(m, position)
    THEN LET word == GetWordAtPosition(m, position)
         IN NewRange(position[1], word[1], position[1], word[2])
    ELSE TokenRangeAtPosition(m, position)

\* line 107 with "not after" for "strictly before"
StartsBeforeOrAt(wordRange, position) ==
  PositionCompare(GetStartPosition(wordRange), position) <= 0

\* line 107: wordRange.getStartPosition().isBefore(position)
StartsBefore(wordRange, position) == IsBefore(GetStartPosition(wordRange), position)

\* line 108 keeping the whole span
AfterRangeWholeSpan(wordRange, position) == wordRange

\* line 108: the range of an anchor of direction 'after'
AfterRange(wordRange, position) ==
  RangeFromPositions(GetStartPosition(wordRange), position)

\* line 111: the range of an anchor of direction 'before'
BeforeRange(wordRange, position) ==
  RangeFromPositions(position, GetEndPosition(wordRange))

\* the anchor the constructor computes for a hint position (lines 101-113)
AnchorFor(m, hintPosition) ==
  LET position == ValidatePosition(m, hintPosition)
      wordRange == GetRangeAtPosition(m, position)
  IN IF StartsBefore(wordRange, position)
       THEN [range |-> AfterRange(wordRange, position), direction |-> "after"]
       ELSE [range |-> BeforeRange(wordRange, position), direction |-> "before"]

\* ------------------------------------------------------------------ state
VARIABLES
  model,        \* the ITextModel handed to create
  providers,    \* per provider: has resolveInlayHint / onDidChangeInlayHints
  hints,        \* the InlayHint objects: position, label, tooltip
  lists,        \* the InlayHintList objects: hints, times disposed
  heap,         \* the InlayHintItem objects: hint, anchor, provider,
                \*   isResolved (_isResolved), currentResolve (_currentResolve)
  items,        \* InlayHintsFragments.items: item ids in order
  promises,     \* one per _doResolve call (one resolveInlayHint call each):
                \*   installing item, starting call, state, outcome, status,
                \*   what the provider resolved to
  calls,        \* the resolve() calls: pc, item, token, awaited promise
  errors,       \* number of errors given to onUnexpectedExternalError
  create,       \* the promise create returned: idle, pending, fulfilled, rejected
  provide,      \* the provideInlayHints calls by <<provider, range>>
  launched,     \* the <<provider, range>> calls in the order they were started
  data,         \* create's data array: <<list, provider>> in completion order
  frag,         \* the fragment set: none, live, disposed
  subs,         \* providers' onDidChangeInlayHints subscriptions in _disposables
  owned,        \* the lists added to _disposables
  listeners,    \* listeners attached to onDidReceiveProviderSignal
  received,     \* invocations of those listeners
  fires         \* per provider: firings of its onDidChangeInlayHints

resolveVars == <<hints, heap, promises, calls>>
createVars == <<create, provide, launched, data, lists>>
fragVars == <<frag, subs, owned, listeners, received, fires>>
vars == <<model, providers, hints, lists, heap, items, promises, calls, errors,
          create, provide, launched, data, frag, subs, owned, listeners, received,
          fires>>

\* the resolve() calls of a behaviour
CallIds == DOMAIN calls

\* ------------------------------------------------------ InlayHintItem
\* new InlayHintItem(hint, anchor, provider): lines 21-24
NewItem(hint, anchor, provider) ==
  [hint |-> hint, anchor |-> anchor, provider |-> provider,
   isResolved |-> FALSE, currentResolve |-> None]

\* with() building an unresolved item: lines 28-29 left out
WithFresh(item, anchor) == NewItem(item.hint, anchor, item.provider)

\* InlayHintItem.with: the copy, lines 27-30
WithCopy(item, anchor) ==
  [NewItem(item.hint, anchor, item.provider) EXCEPT
     !.isResolved = item.isResolved,
     !.currentResolve = item.currentResolve]

\* a ?? b
Coalesce(a, b) == IF a = Undefined THEN b ELSE a

\* what resolveInlayHint may produce: nothing, or a hint with some fields
NoHint == [present |-> FALSE, tooltip |-> Undefined, label |-> Undefined]
ResolveResults ==
  { NoHint,
    [present |-> TRUE, tooltip |-> "T1", label |-> Undefined],
    [present |-> TRUE, tooltip |-> "", label |-> "L1"],
    [present |-> TRUE, tooltip |-> Undefined, label |-> ""] }

\* newHint?.tooltip, newHint?.label
OptTooltip(newHint) == IF newHint.present THEN newHint.tooltip ELSE Undefined
OptLabel(newHint) == IF newHint.present THEN newHint.label ELSE Undefined

\* _doResolve on success: lines 56-57
ApplyResolve(hint, newHint) ==
  [hint EXCEPT !.tooltip = Coalesce(OptTooltip(newHint), hint.tooltip),
               !.label = Coalesce(OptLabel(newHint), hint.label)]

\* _doResolve without its catch: a failure of the provider rejects the promise
DoResolveRethrows(failed) == IF failed THEN "rejected" ELSE "fulfilled"

\* _doResolve catches every failure of the provider (lines 54, 59): the
\* promise it returns is fulfilled whatever the provider did
DoResolveStatus(failed) == "fulfilled"

\* _isResolved after _doResolve: line 58 on success, line 61 on failure
ResolvedAfter(failed) == ~failed

\* joined: the call has waited (line 40) on a resolution whose provider call
\* had not settled yet
IdleCall == [pc |-> "idle", item |-> None, cancelled |-> FALSE, awaiting |-> None,
             joined |-> FALSE]

\* line 46 without its test of _isResolved
MayStartAlways(item) == TRUE

\* may resolve() start _doResolve: line 46
MayStart(item) == ~item.isResolved

\* the body of resolve(token) for call c on item i, up to its first await
\* (lines 34-50); throws: the provider throws synchronously inside _doResolve;
\* retry: the body runs for the call of line 44
ResolveBody(c, i, throws, retry) ==
  LET item == heap[i]
      p == Len(promises) + 1
  IN
  IF ~providers[item.provider].canResolve
  THEN \* line 35
       /\ ~throws
       /\ calls' = [calls EXCEPT ![c] = [@ EXCEPT !.pc = "returned", !.item = i,
                                                   !.awaiting = None,
                                                   !.cancelled = FALSE]]
       /\ UNCHANGED <<heap, promises, errors>>
  ELSE IF item.currentResolve # None
  THEN \* line 40
       /\ ~throws
       /\ calls' = [calls EXCEPT ![c] =
            [@ EXCEPT !.pc = "await40", !.item = i,
                      !.awaiting = item.currentResolve,
                      !.joined = @ \/ promises[item.currentResolve].state = "pending"]]
       /\ UNCHANGED <<heap, promises, errors>>
  ELSE IF MayStart(item)
  THEN \* lines 47-50: _doResolve runs up to its await, then .finally
       /\ promises' = Append(promises,
            [item |-> i, by |-> c, retry |-> retry,
             state |-> IF throws THEN "settled" ELSE "pending",
             failed |-> throws,
             status |-> DoResolveStatus(throws),
             result |-> NoHint])
       /\ heap' = [heap EXCEPT ![i] =
            [@ EXCEPT !.currentResolve = p,
                      !.isResolved = IF throws THEN ResolvedAfter(TRUE) ELSE @]]
       /\ errors' = IF throws THEN errors + 1 ELSE errors
       /\ calls' = [calls EXCEPT ![c] = [@ EXCEPT !.pc = "await50", !.item = i,
                                                   !.awaiting = p]]
  ELSE \* line 50 with nothing to await
       /\ ~throws
       /\ calls' = [calls EXCEPT ![c] = [@ EXCEPT !.pc = "returned", !.item = i,
                                                   !.awaiting = None,
                                                   !.cancelled = FALSE]]
       /\ UNCHANGED <<heap, promises, errors>>

\* a caller calls item.resolve(token)
Resolve(c, i) ==
  /\ frag # "none"
  /\ calls[c].pc = "idle"
  /\ \A b \in CallIds : b < c => calls[b].pc # "idle"
  /\ \E throws \in BOOLEAN : ResolveBody(c, i, throws, FALSE)
  /\ UNCHANGED <<model, providers, hints, items, createVars, lists, fragVars>>

\* the caller's token is cancelled, while its call is suspended or before it
\* is issued
Cancel(c) ==
  /\ \/ calls[c].pc \in {"await40", "await50"}
     \/ calls[c].pc = "idle" /\ \A b \in CallIds : b < c => calls[b].pc # "idle"
  /\ ~calls[c].cancelled
  /\ calls' = [calls EXCEPT ![c].cancelled = TRUE]
  /\ UNCHANGED <<model, providers, hints, heap, items, promises, errors,
                 createVars, fragVars>>

\* the provider's promise settles and _doResolve continues: lines 55-62
DoResolveSettle(p, failed, newHint) ==
  LET i == promises[p].item
      h == heap[i].hint
  IN
  /\ promises[p].state = "pending"
  /\ promises' = [promises EXCEPT ![p] =
       [@ EXCEPT !.state = "settled", !.failed = failed,
                 !.status = DoResolveStatus(failed),
                 !.result = IF failed THEN NoHint ELSE newHint]]
  /\ hints' = IF failed THEN hints
              ELSE [hints EXCEPT ![h] = ApplyResolve(@, newHint)]
  /\ heap' = [heap EXCEPT ![i].isResolved = ResolvedAfter(failed)]
  /\ errors' = IF failed THEN errors + 1 ELSE errors
  /\ UNCHANGED <<model, providers, items, calls, createVars, fragVars>>

\* line 48 clearing the handle of the first item of the set
ClearsFirst(p) == 1

\* the item whose handle the .finally callback of promise p clears: line 48
Clears(p) == promises[p].item

\* the .finally callback runs, then the promise resolve() awaits settles
FinallyClear(p) ==
  /\ promises[p].state = "settled"
  /\ promises' = [promises EXCEPT ![p].state = "cleared"]
  /\ heap' = [heap EXCEPT ![Clears(p)].currentResolve = None]
  /\ UNCHANGED <<model, providers, hints, items, calls, errors, createVars, fragVars>>

\* line 41 without its look at the token
ChecksTokenNever(c) == FALSE

\* is the token looked at after the wait of line 40: line 41
ChecksToken(c) == calls[c].cancelled

\* resolve() continues after line 40: lines 41-44
AwaitHandleDone(c) ==
  /\ calls[c].pc = "await40"
  /\ promises[calls[c].awaiting].state = "cleared"
  /\ IF promises[calls[c].awaiting].status = "rejected"
     THEN /\ calls' = [calls EXCEPT ![c] = [@ EXCEPT !.pc = "threw", !.awaiting = None,
                                                      !.cancelled = FALSE]]
          /\ UNCHANGED <<heap, promises, errors>>
     ELSE IF ChecksToken(c)
     THEN /\ calls' = [calls EXCEPT ![c] = [@ EXCEPT !.pc = "returned", !.awaiting = None]]
          /\ UNCHANGED <<heap, promises, errors>>
     ELSE \E throws \in BOOLEAN : ResolveBody(c, calls[c].item, throws, TRUE)
  /\ UNCHANGED <<model, providers, hints, items, createVars, fragVars>>

\* resolve() continues after line 50
AwaitOwnDone(c) ==
  /\ calls[c].pc = "await50"
  /\ promises[calls[c].awaiting].state = "cleared"
  /\ calls' = [calls EXCEPT ![c] =
       [@ EXCEPT !.pc = IF promises[calls[c].awaiting].status = "rejected"
                          THEN "threw" ELSE "returned",
                 !.awaiting = None, !.cancelled = FALSE]]
  /\ UNCHANGED <<model, providers, hints, heap, items, promises, errors,
                 createVars, fragVars>>

\* the anchors a caller hands to with()
DeltaAnchors == {[range |-> NewRange(1, 1, 1, 1), direction |-> "before"]}

\* a caller calls item.with({anchor})
With(i, anchor) ==
  /\ frag # "none"
  /\ Len(heap) - Len(items) < MaxCopies
  /\ heap' = Append(heap, WithCopy(heap[i], anchor))
  /\ UNCHANGED <<model, providers, hints, items, promises, calls, errors,
                 createVars, fragVars>>

\* ------------------------------------------------ InlayHintsFragments
\* the positions providers put hints at
HintPositions == {<<1, 1>>, <<1, 5>>, <<2, 1>>}
\* those of the providers create calls
ProvidedPositions == {<<1, 5>>, <<2, 1>>}

\* a hint object as a provider hands it out
NewHint(position) == [position |-> position, label |-> "L0", tooltip |-> Undefined]

\* InlayHintsProviderRegistry.ordered(model): providers by priority
Ordered == [k \in 1..NumProviders |-> k]

Reverse(s) == [k \in 1..Len(s) |-> s[Len(s) + 1 - k]]

\* the calls in the order create starts them: line 72
RECURSIVE LaunchOrder(_)
LaunchOrder(provs) ==
  IF provs = <<>> THEN <<>>
  ELSE [r \in 1..NumRanges |-> <<Head(provs), r>>] \o LaunchOrder(Tail(provs))

\* the callback without its try/catch: a failing provider rejects the promise
UnguardedStatus(failed) == IF failed THEN "rejected" ELSE "fulfilled"

\* the try/catch around one provideInlayHints call (lines 73-80): the promise
\* of the callback is fulfilled whether or not the provider failed
GuardedStatus(failed) == "fulfilled"

\* line 75 asking for more than one hint
PushesResultMany(hintCount) == hintCount > 1

\* line 75: result?.hints.length
PushesResult(hintCount) == hintCount > 0

\* items.sort(compare) is stable: insert x behind the last element not after it
RECURSIVE Insert(_, _, _)
Insert(x, s, pos) ==
  IF s = <<>> THEN <<x>>
  ELSE IF PositionCompare(pos[s[Len(s)]], pos[x]) <= 0 THEN Append(s, x)
  ELSE Append(Insert(x, SubSeq(s, 1, Len(s) - 1), pos), s[Len(s)])

RECURSIVE StableSort(_, _)
StableSort(s, pos) ==
  IF s = <<>> THEN <<>>
  ELSE Insert(s[Len(s)], StableSort(SubSeq(s, 1, Len(s) - 1), pos), pos)

\* the items the constructor pushes, in order: lines 96-116
RECURSIVE ItemsOfData(_, _, _, _)
ItemsOfData(m, hs, ls, d) ==
  IF d = <<>> THEN <<>>
  ELSE LET list == ls[Head(d).list]
       IN [k \in 1..Len(list.hints) |->
             NewItem(list.hints[k], AnchorFor(m, hs[list.hints[k]].position),
                     Head(d).provider)]
          \o ItemsOfData(m, hs, ls, Tail(d))

\* line 121 without the sort
UnsortedItems(newHeap, hs) == [k \in 1..Len(newHeap) |-> k]

\* line 121: the items sorted by hint position
SortedItems(newHeap, hs) ==
  StableSort([k \in 1..Len(newHeap) |-> k],
             [k \in 1..Len(newHeap) |-> hs[newHeap[k].hint].position])

\* lines 117-119 subscribing once per provider
RECURSIVE SubsOncePerProvider(_, _)
SubsOncePerProvider(provs, d) ==
  IF d = <<>> THEN <<>>
  ELSE LET rest == SubsOncePerProvider(provs, Tail(d))
       IN IF /\ provs[Head(d).provider].canSignal
             /\ \A k \in DOMAIN rest : rest[k] # Head(d).provider
            THEN <<Head(d).provider>> \o rest
            ELSE rest

\* lines 117-119: one subscription per data entry whose provider has the event
RECURSIVE SubsOfData(_, _)
SubsOfData(provs, d) ==
  IF d = <<>> THEN <<>>
  ELSE (IF provs[Head(d).provider].canSignal THEN <<Head(d).provider>> ELSE <<>>)
       \o SubsOfData(provs, Tail(d))

\* line 97: the lists added to _disposables
OwnedOfData(d) == [k \in 1..Len(d) |-> d[k].list]

AllSettled == \A c \in DOMAIN provide : provide[c].state = "done"
AnyRejected == \E c \in DOMAIN provide :
                 provide[c].state = "done" /\ provide[c].status = "rejected"

\* InlayHintsFragments.create up to its await: every call is started (line 72)
Create(throwing) ==
  /\ create = "idle"
  /\ create' = "pending"
  /\ launched' = LaunchOrder(Reverse(Ordered))
  /\ provide' = [c \in Providers \X Ranges |->
       IF c \in throwing
         THEN [state |-> "done", failed |-> TRUE, status |-> GuardedStatus(TRUE)]
         ELSE [state |-> "pending", failed |-> FALSE, status |-> "fulfilled"]]
  /\ errors' = errors + Cardinality(throwing)
  /\ UNCHANGED <<model, providers, hints, lists, heap, items, promises, calls,
                 data, fragVars>>

\* a provideInlayHints promise is rejected: lines 78-80
ProvideFail(p, r) ==
  /\ provide[<<p, r>>].state = "pending"
  /\ provide' = [provide EXCEPT ![<<p, r>>] =
       [state |-> "done", failed |-> TRUE, status |-> GuardedStatus(TRUE)]]
  /\ errors' = errors + 1
  /\ UNCHANGED <<model, providers, hints, lists, heap, items, promises, calls,
                 create, launched, data, fragVars>>

\* a provideInlayHints promise is fulfilled with nothing: lines 74-75
ProvideNothing(p, r) ==
  /\ provide[<<p, r>>].state = "pending"
  /\ provide' = [provide EXCEPT ![<<p, r>>] =
       [state |-> "done", failed |-> FALSE, status |-> GuardedStatus(FALSE)]]
  /\ UNCHANGED <<model, providers, hints, lists, heap, items, promises, calls,
                 errors, create, launched, data, fragVars>>

\* a provideInlayHints promise is fulfilled with a list: lines 74-77
ProvideList(p, r, positions) ==
  LET n == Len(hints)
      l == Len(lists) + 1
  IN
  /\ provide[<<p, r>>].state = "pending"
  /\ provide' = [provide EXCEPT ![<<p, r>>] =
       [state |-> "done", failed |-> FALSE, status |-> GuardedStatus(FALSE)]]
  /\ hints' = hints \o [k \in 1..Len(positions) |-> NewHint(positions[k])]
  /\ lists' = Append(lists,
       [hints |-> [k \in 1..Len(positions) |-> n + k], provider |-> p,
        range |-> r, disposed |-> 0])
  /\ data' = IF PushesResult(Len(positions))
               THEN Append(data, [list |-> l, provider |-> p])
               ELSE data
  /\ UNCHANGED <<model, providers, heap, items, promises, calls, errors,
                 create, launched, fragVars>>

\* Promise.all settles (line 83), then the constructor runs (lines 94-122)
CreateSettle ==
  /\ create = "pending"
  /\ AnyRejected \/ AllSettled
  /\ IF AnyRejected
     THEN /\ create' = "rejected"
          /\ UNCHANGED <<heap, items, frag, subs, owned>>
     ELSE /\ create' = "fulfilled"
          /\ heap' = ItemsOfData(model, hints, lists, data)
          /\ items' = SortedItems(heap', hints)
          /\ subs' = SubsOfData(providers, data)
          /\ owned' = OwnedOfData(data)
          /\ frag' = "live"
  /\ UNCHANGED <<model, providers, hints, lists, promises, calls, errors,
                 provide, launched, data, listeners, received, fires>>

\* a consumer attaches a listener to onDidReceiveProviderSignal
Listen ==
  /\ frag # "none"
  /\ listeners < MaxListeners
  /\ listeners' = listeners + 1
  /\ UNCHANGED <<model, providers, hints, lists, heap, items, promises, calls,
                 errors, create, provide, launched, data, frag, subs, owned,
                 received, fires>>

\* the subscriptions of the fragment set to provider p's event
SubsOf(p) == Cardinality({k \in DOMAIN subs : subs[k] = p})

TotalFires == LET RECURSIVE Sum(_)
                  Sum(k) == IF k = 0 THEN 0 ELSE fires[k] + Sum(k - 1)
              IN Sum(NumProviders)

\* provider p fires onDidChangeInlayHints: each subscription calls
\* _onDidChange.fire, which calls every listener
Fire(p) ==
  /\ frag # "none"
  /\ providers[p].canSignal
  /\ TotalFires < MaxFires
  /\ fires' = [fires EXCEPT ![p] = @ + 1]
  /\ received' = received + SubsOf(p) * listeners
  /\ UNCHANGED <<model, providers, hints, lists, heap, items, promises, calls,
                 errors, create, provide, launched, data, frag, subs, owned,
                 listeners>>

\* dispose without line 126: the subscriptions stay
SubsKept(s) == s

\* what dispose leaves of the listeners and of the subscriptions: lines 125-126
ListenersAfterDispose(n) == 0
SubsAfterDispose(s) == <<>>

\* InlayHintsFragments.dispose
Dispose ==
  /\ frag = "live"
  /\ frag' = "disposed"
  /\ listeners' = ListenersAfterDispose(listeners)
  /\ subs' = SubsAfterDispose(subs)
  /\ lists' = [l \in DOMAIN lists |->
       IF \E k \in DOMAIN owned : owned[k] = l
         THEN [lists[l] EXCEPT !.disposed = @ + 1] ELSE lists[l]]
  /\ owned' = <<>>
  /\ UNCHANGED <<model, providers, hints, heap, items, promises, calls, errors,
                 create, provide, launched, data, received, fires>>

\* --------------------------------------------------------- specifications
NoCalls(n) == [c \in 1..n |-> IdleCall]

\* create has not been called yet
InitCreate ==
  /\ model \in Docs
  /\ providers \in [Providers -> [canResolve : {TRUE}, canSignal : BOOLEAN]]
  /\ hints = <<>>
  /\ lists = <<>>
  /\ heap = <<>>
  /\ items = <<>>
  /\ promises = <<>>
  /\ calls = NoCalls(0)
  /\ errors = 0
  /\ create = "idle"
  /\ provide = [c \in Providers \X Ranges |->
                  [state |-> "none", failed |-> FALSE, status |-> "fulfilled"]]
  /\ launched = <<>>
  /\ data = <<>>
  /\ frag = "none"
  /\ subs = <<>>
  /\ owned = <<>>
  /\ listeners = 0
  /\ received = 0
  /\ fires = [p \in Providers |-> 0]

NextCreate ==
  \/ \E throwing \in SUBSET (Providers \X Ranges) : Create(throwing)
  \/ \E p \in Providers, r \in Ranges : ProvideFail(p, r)
  \/ \E p \in Providers, r \in Ranges : ProvideNothing(p, r)
  \/ \E p \in Providers, r \in Ranges, n \in 0..MaxListLen :
       \E positions \in [1..n -> ProvidedPositions] : ProvideList(p, r, positions)
  \/ CreateSettle
  \/ Listen
  \/ \E p \in Providers : Fire(p)
  \/ Dispose

\* create, the signals and dispose
SpecCreate == InitCreate /\ [][NextCreate]_vars

\* a fragment set create has returned: provider 1 answered range 1 with hints
\* at the given positions, every other call came back with nothing
Created(positions, canResolve, nCalls) ==
  /\ model \in Docs
  /\ providers = [p \in Providers |->
       [canResolve |-> (p # 1 \/ canResolve), canSignal |-> TRUE]]
  /\ hints = [k \in 1..Len(positions) |-> NewHint(positions[k])]
  /\ lists = <<[hints |-> [k \in 1..Len(positions) |-> k], provider |-> 1,
                range |-> 1, disposed |-> 0]>>
  /\ data = <<[list |-> 1, provider |-> 1]>>
  /\ heap = ItemsOfData(model, hints, lists, data)
  /\ items = SortedItems(heap, hints)
  /\ promises = <<>>
  /\ calls = NoCalls(nCalls)
  /\ errors = 0
  /\ create = "fulfilled"
  /\ provide = [c \in Providers \X Ranges |->
                  [state |-> "done", failed |-> FALSE, status |-> "fulfilled"]]
  /\ launched = LaunchOrder(Reverse(Ordered))
  /\ frag = "live"
  /\ subs = SubsOfData(providers, data)
  /\ owned = OwnedOfData(data)
  /\ listeners = 0
  /\ received = 0
  /\ fires = [p \in Providers |-> 0]

\* the steps of resolve() and of the resolutions it starts
ResolveNext ==
  \/ \E c \in CallIds, i \in DOMAIN heap : Resolve(c, i)
  \/ \E c \in CallIds : Cancel(c)
  \/ \E p \in DOMAIN promises, failed \in BOOLEAN, newHint \in ResolveResults :
       DoResolveSettle(p, failed, newHint)
  \/ \E p \in DOMAIN promises : FinallyClear(p)
  \/ \E c \in CallIds : AwaitHandleDone(c)
  \/ \E c \in CallIds : AwaitOwnDone(c)

\* one hint, whose provider may or may not have resolveInlayHint
Init == \E canResolve \in BOOLEAN : Created(<<(<<1, 1>>)>>, canResolve, MaxCalls)

Next ==
  \/ ResolveNext
  \/ \E i \in DOMAIN heap, anchor \in DeltaAnchors : With(i, anchor)

\* resolve() and with() on one item of a fragment set and on its copies
Spec == Init /\ [][Next]_vars

InitSet ==
  \E positions \in [1..NumHints -> HintPositions] :
    Created(positions, TRUE, MaxSetCalls)

NextSet ==
  \/ ResolveNext
  \/ Dispose

\* resolve() on the items of a fragment set of several hints, and dispose()
SpecSet == InitSet /\ [][NextSet]_vars

\* create is about to build the fragment set of one list with one hint: every
\* provideInlayHints call has settled, provider 1 answered range 1
InitAnchor ==
  /\ model \in AnchorDocs
  /\ providers = [p \in Providers |-> [canResolve |-> TRUE, canSignal |-> TRUE]]
  /\ \E position \in AnchorPositions : hints = <<NewHint(position)>>
  /\ lists = <<[hints |-> <<1>>, provider |-> 1, range |-> 1, disposed |-> 0]>>
  /\ data = <<[list |-> 1, provider |-> 1]>>
  /\ heap = <<>>
  /\ items = <<>>
  /\ promises = <<>>
  /\ calls = NoCalls(0)
  /\ errors = 0
  /\ create = "pending"
  /\ provide = [c \in Providers \X Ranges |->
                  [state |-> "done", failed |-> FALSE, status |-> "fulfilled"]]
  /\ launched = LaunchOrder(Reverse(Ordered))
  /\ frag = "none"
  /\ subs = <<>>
  /\ owned = <<>>
  /\ listeners = 0
  /\ received = 0
  /\ fires = [p \in Providers |-> 0]

NextAnchor ==
  \/ CreateSettle
  \/ Dispose

\* the constructor placing the anchor of a hint in a document
SpecAnchor == InitAnchor /\ [][NextAnchor]_vars

\* ------------------------------------------------------------- claims
\* the resolveInlayHint calls made through item i, and those that failed
InvocationsOf(i) == {p \in DOMAIN promises : promises[p].item = i}
FailuresOf(i) == {p \in InvocationsOf(i) : promises[p].failed}

\* the calls issued so far
Issued == {c \in CallIds : calls[c].pc # "idle"}

\* exactly two resolve() calls were issued, both on item i, the second while
\* the resolution the first one started was in flight
TwoConcurrentOn(i) ==
  /\ Issued = {1, 2}
  /\ calls[1].item = i /\ calls[2].item = i
  /\ 1 \in InvocationsOf(i)
  /\ promises[1].by = 1
  /\ calls[2].joined

\* C1 as stated: two concurrent resolve() calls on an unresolved item cause at
\* most one resolveInlayHint call in total, whether it succeeds or fails
C1_AtMostOneInvocation ==
  \A i \in DOMAIN heap : TwoConcurrentOn(i) => Cardinality(InvocationsOf(i)) <= 1

\* C1 amended: two concurrent resolve() calls on an unresolved item cause at
\* most one resolveInlayHint call when that call succeeds, and at most two in
\* total: a second one is made only after the first one failed
C1_OneInvocationUnlessFailed ==
  \A i \in DOMAIN heap : TwoConcurrentOn(i) =>
    /\ Cardinality(InvocationsOf(i)) <= 2
    /\ Cardinality(InvocationsOf(i)) <= 1 + Cardinality(FailuresOf(i))

\* both calls of the pair have returned after one successful provider call
C1_Witness ==
  \E i \in DOMAIN heap :
    /\ TwoConcurrentOn(i)
    /\ calls[1].pc = "returned" /\ calls[2].pc = "returned"
    /\ Cardinality(InvocationsOf(i)) = 1
    /\ heap[i].isResolved

\* the steps the program takes by itself once the providers' promises settle
ProgramStep ==
  \/ \E p \in DOMAIN promises, failed \in BOOLEAN, newHint \in ResolveResults :
       DoResolveSettle(p, failed, newHint)
  \/ \E p \in DOMAIN promises : FinallyClear(p)
  \/ \E c \in CallIds : AwaitHandleDone(c)
  \/ \E c \in CallIds : AwaitOwnDone(c)

Suspended(c) == calls[c].pc \in {"await40", "await50"}

\* C2: every resolve() call completes without throwing once the providers'
\* calls settle, also when its token is never cancelled and also on a copy
\* made by with() during a resolution: no call has thrown, and while a call is
\* suspended the program can still take a step that changes the state
C2_EveryResolveCompletes ==
  /\ \A c \in CallIds : calls[c].pc # "threw"
  /\ (\E c \in CallIds : Suspended(c)) => ENABLED <<ProgramStep>>_vars

\* the provider calls in flight for hint h
InFlightFor(h) ==
  {p \in DOMAIN promises :
     promises[p].state = "pending" /\ heap[promises[p].item].hint = h}

\* C3: never are two resolveInlayHint calls in flight for the same hint and
\* provider, whatever resolve() and with() calls are made on an item and on
\* its copies
C3_NoTwoInFlightPerHint ==
  \A h \in DOMAIN hints : Cardinality(InFlightFor(h)) <= 1

\* the hints of all the lists the providers returned
RECURSIVE HintCount(_)
HintCount(ls) == IF ls = <<>> THEN 0 ELSE Len(Head(ls).hints) + HintCount(Tail(ls))

\* the places of hint h in items
PlacesOf(h) == {k \in DOMAIN items : heap[items[k]].hint = h}

FailedCalls == {c \in DOMAIN provide : provide[c].failed}

\* C4: the items of the fragment set create returns hold each hint of each
\* list a provider returned exactly once, whatever the other calls did
C4_EachHintOnce ==
  create = "fulfilled" =>
    /\ Len(items) = HintCount(lists)
    /\ \A l \in DOMAIN lists : \A k \in DOMAIN lists[l].hints :
         Cardinality(PlacesOf(lists[l].hints[k])) = 1

\* a fragment set of several hints, built although a call failed
C4_Witness ==
  /\ create = "fulfilled"
  /\ FailedCalls # {}
  /\ Len(items) >= 2
  /\ \E l \in DOMAIN lists : lists[l].hints = <<>>

\* the place of provider p in the registry's order
PriorityOf(p) == CHOOSE k \in DOMAIN Ordered : Ordered[k] = p

\* C5: of two hints at the same position from different providers, the one
\* of the provider earlier in the registry's order comes first in items
C5_PriorityBreaksTies ==
  create = "fulfilled" =>
    \A j, k \in DOMAIN items :
      LET a == heap[items[j]]
          b == heap[items[k]]
      IN (/\ hints[a.hint].position = hints[b.hint].position
          /\ PriorityOf(a.provider) < PriorityOf(b.provider)) => j < k

PositionAt(k) == hints[heap[items[k]].hint].position

ItemsSorted ==
  \A j, k \in DOMAIN items : j < k => PositionCompare(PositionAt(j), PositionAt(k)) <= 0

\* C6: items is sorted by hint position (line, then column) from construction
\* on, and no step of resolve() or dispose() changes items or a hint's position
C6_ItemsStaySorted ==
  /\ []ItemsSorted
  /\ [][/\ items' = items
        /\ \A h \in DOMAIN hints : hints'[h].position = hints[h].position]_vars

\* a hint of the set was resolved with a new label, the set was disposed, and
\* the provider's list had the hints in another order than items
C6_Witness ==
  /\ frag = "disposed"
  /\ Len(items) >= 2
  /\ items # [k \in DOMAIN items |-> k]
  /\ \E i \in DOMAIN items : heap[i].isResolved /\ hints[heap[i].hint].label = "L1"

\* the provider call of promise p fails in this step
FailsNow(p) ==
  /\ promises'[p].failed
  /\ p \in DOMAIN promises => promises[p].state = "pending"

\* the last provider call made through item i failed and its handle is cleared
LastFailedAndCleared(i) ==
  /\ InvocationsOf(i) # {}
  /\ LET last == CHOOSE p \in InvocationsOf(i) : \A q \in InvocationsOf(i) : q <= p
     IN promises[last].failed /\ promises[last].state = "cleared"
  /\ heap[i].currentResolve = None

\* call c runs the body of resolve() on item i in this step
EntersResolve(c, i) ==
  \/ calls[c].pc = "idle" /\ calls'[c].pc # "idle" /\ calls'[c].item = i
  \/ /\ calls[c].pc = "await40" /\ calls[c].item = i
     /\ ~calls[c].cancelled
     /\ calls'[c].pc # "await40" \/ calls'[c].awaiting # calls[c].awaiting

\* C7: when the provider call resolve() started fails, the error goes to the
\* error sink and no resolve() call throws, the resolved flag is false and
\* label and tooltip are as before, the handle of the item is cleared by the
\* settlement, and the next resolve() on that item calls the provider again
C7_FailedResolve ==
  /\ [](\A c \in CallIds : calls[c].pc # "threw")
  /\ [][\A p \in DOMAIN promises' : FailsNow(p) =>
          /\ errors' = errors + 1
          /\ ~heap'[promises'[p].item].isResolved
          /\ hints' = hints]_vars
  /\ [][\A p \in DOMAIN promises :
          (promises[p].failed /\ promises[p].state = "settled"
             /\ promises'[p].state = "cleared") =>
          heap'[promises[p].item].currentResolve = None]_vars
  /\ [][\A c \in CallIds, i \in DOMAIN heap :
          (EntersResolve(c, i) /\ LastFailedAndCleared(i)) =>
          /\ Len(promises') = Len(promises) + 1
          /\ promises'[Len(promises')].item = i
          /\ promises'[Len(promises')].by = c]_vars

\* a call whose provider call failed has returned, and a later resolve() on
\* the same item has called the provider again
C7_Witness ==
  \E i \in DOMAIN heap : \E p, q \in InvocationsOf(i) :
    /\ p < q
    /\ promises[p].failed
    /\ calls[promises[p].by].pc = "returned"
    /\ ~heap[i].isResolved
    /\ errors >= 1

\* C8: once the resolved flag of an item is true it stays true, and no
\* resolve() on that item calls the provider or changes label or tooltip
C8_ResolvedIsFinal ==
  /\ [](\A i \in DOMAIN heap : heap[i].isResolved =>
          \A p \in InvocationsOf(i) : promises[p].state # "pending")
  /\ [][\A i \in DOMAIN heap : heap[i].isResolved =>
          /\ heap'[i].isResolved
          /\ {p \in DOMAIN promises' : promises'[p].item = i} = InvocationsOf(i)]_vars

\* calls on a resolved item returned without a further provider call
C8_Witness ==
  \E i \in DOMAIN heap :
    /\ heap[i].isResolved
    /\ Cardinality(InvocationsOf(i)) = 1
    /\ Cardinality({c \in CallIds : calls[c].pc = "returned" /\ calls[c].item = i}) >= 3

\* the hints of the lists that calls which did not fail returned
ListOfFailedCall ==
  \E l \in DOMAIN lists : provide[<<lists[l].provider, lists[l].range>>].failed

\* C9: create is never rejected by a failing provideInlayHints call: each
\* failure goes to the error sink and adds no items; create completes only
\* when every call has settled, and every call is started before any is awaited
C9_CreateNeverRejects ==
  /\ create # "rejected"
  /\ errors = Cardinality(FailedCalls)
  /\ ~ListOfFailedCall
  /\ create = "fulfilled" =>
       /\ AllSettled
       /\ \A k \in DOMAIN items :
            \E l \in DOMAIN lists :
              /\ \E n \in DOMAIN lists[l].hints : lists[l].hints[n] = heap[items[k]].hint
              /\ ~provide[<<lists[l].provider, lists[l].range>>].failed
  /\ create # "idle" =>
       /\ \A c \in DOMAIN provide : provide[c].state # "none"
       /\ {launched[k] : k \in DOMAIN launched} = DOMAIN provide

\* create has completed with items although calls failed, by throwing and by
\* rejecting
C9_Witness ==
  /\ create = "fulfilled"
  /\ Cardinality(FailedCalls) >= 2
  /\ errors >= 2
  /\ items # <<>>

\* C10: after dispose() no firing of a provider's onDidChangeInlayHints calls
\* a listener of onDidReceiveProviderSignal; before dispose() every firing of
\* a subscribed provider calls every listener
C10_SignalsUntilDispose ==
  [][/\ frag = "disposed" => received' = received
     /\ \A p \in Providers :
          (frag = "live" /\ frag' = "live" /\ fires'[p] # fires[p] /\ SubsOf(p) > 0) =>
          received' >= received + listeners]_vars

\* a subscribed provider fired before dispose() and a listener was called; a
\* provider fired after dispose() with a listener attached, which was not
C10_Witness ==
  /\ frag = "disposed"
  /\ received = 1
  /\ listeners = 1
  /\ TotalFires = 2

\* the lists the providers returned from calls that did not fail
ReturnedLists ==
  {l \in DOMAIN lists : ~provide[<<lists[l].provider, lists[l].range>>].failed}

\* C11: after dispose() every list a provider returned from a call that did
\* not fail has been disposed exactly once, the lists without hints included
C11_EveryListDisposedOnce ==
  frag = "disposed" => \A l \in ReturnedLists : lists[l].disposed = 1

\* C11 for the lists that hold hints: they are disposed exactly once by
\* dispose(), and no list is disposed before it or more than once
C11_ListsWithHintsDisposedOnce ==
  /\ frag = "disposed" =>
       \A l \in ReturnedLists : lists[l].hints # <<>> => lists[l].disposed = 1
  /\ frag # "disposed" => \A l \in DOMAIN lists : lists[l].disposed = 0
  /\ \A l \in DOMAIN lists : lists[l].disposed <= 1

\* the validated position of the hint of item i, and the span
\* _getRangeAtPosition returns for it
PlacedPosition(i) == ValidatePosition(model, hints[heap[i].hint].position)
PlacedSpan(i) == GetRangeAtPosition(model, PlacedPosition(i))

IsDegenerate(r) == r.sl = r.el /\ r.sc = r.ec

\* C12: the direction of a hint's anchor is 'after' if and only if the start
\* of the span _getRangeAtPosition returns is strictly before the hint's
\* validated position, and 'before' otherwise; a span whose start equals its
\* end always gives 'before'
C12_DirectionIffStartBefore ==
  \A k \in DOMAIN items :
    LET i == items[k]
        direction == heap[i].anchor.direction
    IN /\ direction \in {"after", "before"}
       /\ direction = "after" <=>
            IsBefore(GetStartPosition(PlacedSpan(i)), PlacedPosition(i))
       /\ IsDegenerate(PlacedSpan(i)) => direction = "before"

\* a hint given outside the document was placed on the empty line: the span
\* is degenerate and the direction is 'before'
C12_Witness ==
  \E k \in DOMAIN items :
    /\ IsDegenerate(PlacedSpan(items[k]))
    /\ hints[heap[items[k]].hint].position # PlacedPosition(items[k])
    /\ heap[items[k]].anchor.direction = "before"

\* the token _getRangeAtPosition finds at the validated position of item i:
\* its index, its offsets, and the offset looked up
PlacedTokens(i) == model[PlacedPosition(i)[1]].tokens
PlacedOffset(i) == PlacedPosition(i)[2] - 1
PlacedIndex(i) == FindTokenIndexAtOffset(PlacedTokens(i), PlacedOffset(i))

\* the span of token idx of line as a range
TokenSpan(line, toks, idx) ==
  NewRange(line, GetStartOffset(toks, idx) + 1, line, GetEndOffset(toks, idx) + 1)

\* the span C13 describes for item i: the preceding token's when the token
\* found is one character long, starts at the offset and is not the first;
\* else the following token's when it ends at the offset and is not the last;
\* else its own
ShiftedSpan(i) ==
  LET line == PlacedPosition(i)[1]
      toks == PlacedTokens(i)
      offset == PlacedOffset(i)
      idx == PlacedIndex(i)
      single == GetEndOffset(toks, idx) - GetStartOffset(toks, idx) = 1
  IN IF single /\ GetStartOffset(toks, idx) = offset /\ idx >= 1
       THEN TokenSpan(line, toks, idx - 1)
     ELSE IF single /\ GetEndOffset(toks, idx) = offset /\ idx < GetCount(toks) - 1
       THEN TokenSpan(line, toks, idx + 1)
     ELSE TokenSpan(line, toks, idx)

\* C13: without a word at the position, the span is the preceding token's
\* when the token found is one character long, starts at the offset and any
\* token precedes it (index >= 1), else the following token's when it ends at
\* the offset and a token follows, else the span of the token found
C13_SingleCharacterTokenShift ==
  \A k \in DOMAIN items :
    ~HasWordAt(model, PlacedPosition(items[k])) =>
      PlacedSpan(items[k]) = ShiftedSpan(items[k])

\* C13 for the tokens the code shifts from: a one-character token at the
\* offset gives way to the preceding token only from index 2 on; at index 0
\* and index 1 its own span is returned
C13_ShiftFromIndexTwo ==
  \A k \in DOMAIN items :
    LET i == items[k]
        line == PlacedPosition(i)[1]
        toks == PlacedTokens(i)
        idx == PlacedIndex(i)
        single == GetEndOffset(toks, idx) - GetStartOffset(toks, idx) = 1
    IN ~HasWordAt(model, PlacedPosition(i)) =>
         PlacedSpan(i) =
           IF single /\ GetStartOffset(toks, idx) = PlacedOffset(i) /\ idx >= 2
             THEN TokenSpan(line, toks, idx - 1)
             ELSE TokenSpan(line, toks, idx)

\* the anchor the span of a word gives at position: the part of the word
\* before the position when the word starts before it, else the part after
WordAnchor(word, position) ==
  IF word[1] < position[2]
    THEN [range |-> [sl |-> position[1], sc |-> word[1],
                     el |-> position[1], ec |-> position[2]],
          direction |-> "after"]
    ELSE [range |-> [sl |-> position[1], sc |-> position[2],
                     el |-> position[1], ec |-> word[2]],
          direction |-> "before"]

\* C14: when the document has a word at the hint's validated position, the
\* span used for the anchor is that word's span (its line, start column and
\* end column), whatever the tokens of the line are
C14_WordWins ==
  \A k \in DOMAIN items :
    LET i == items[k]
        position == PlacedPosition(i)
    IN \A word \in WordsAt(model, position) :
         /\ PlacedSpan(i) = [sl |-> position[1], sc |-> word[1],
                             el |-> position[1], ec |-> word[2]]
         /\ heap[i].anchor = WordAnchor(word, position)

\* a hint inside a word that no token of the line coincides with: the anchor
\* runs from the word's start to the position
C14_Witness ==
  \E k \in DOMAIN items :
    LET i == items[k]
        position == PlacedPosition(i)
    IN /\ \E word \in WordsAt(model, position) :
            /\ word[1] < position[2] /\ position[2] < word[2]
            /\ heap[i].anchor = WordAnchor(word, position)
       /\ TokenRangeAtPosition(model, position) # PlacedSpan(i)

\* the provider call of promise p succeeds in this step
SucceedsNow(p) ==
  /\ promises[p].state = "pending"
  /\ promises'[p].state = "settled"
  /\ ~promises'[p].failed

\* a replacement that is neither absent nor empty
NonEmpty(v) == v # Undefined /\ v # ""

\* C15: when a resolveInlayHint call succeeds, tooltip and label are
\* overwritten only by a non-empty replacement: no result, an absent field or
\* an empty value (the empty string) leaves the field as it was; the resolved
\* flag becomes true in every case
C15_OverwriteOnlyNonEmpty ==
  [][\A p \in DOMAIN promises : SucceedsNow(p) =>
       LET r == promises'[p].result
           i == promises[p].item
           h == heap[i].hint
       IN /\ hints'[h].tooltip =
               IF NonEmpty(OptTooltip(r)) THEN r.tooltip ELSE hints[h].tooltip
          /\ hints'[h].label =
               IF NonEmpty(OptLabel(r)) THEN r.label ELSE hints[h].label
          /\ heap'[i].isResolved]_vars

\* C15 for absent values: no result or an absent field leaves the field as it
\* was, every other value, the empty string included, replaces it
C15_OverwriteUnlessAbsent ==
  [][\A p \in DOMAIN promises : SucceedsNow(p) =>
       LET r == promises'[p].result
           i == promises[p].item
           h == heap[i].hint
       IN /\ hints'[h].tooltip =
               IF OptTooltip(r) # Undefined THEN r.tooltip ELSE hints[h].tooltip
          /\ hints'[h].label =
               IF OptLabel(r) # Undefined THEN r.label ELSE hints[h].label
          /\ heap'[i].isResolved]_vars

\* the resolveInlayHint calls started through item i that have not settled
UnsettledOf(i) == {p \in InvocationsOf(i) : promises[p].state = "pending"}

\* call c runs the body of resolve() on item i in this step: it is issued, or
\* it comes back from the wait of line 40 with its token not cancelled
RunsBody(c, i) ==
  \/ calls[c].pc = "idle" /\ calls'[c].pc # "idle" /\ calls'[c].item = i
  \/ /\ calls[c].pc = "await40" /\ calls[c].item = i
     /\ promises[calls[c].awaiting].state = "cleared"
     /\ ~calls[c].cancelled /\ ~calls'[c].cancelled
     /\ calls'[c] # calls[c]

\* C16: through one item at most one resolveInlayHint call is unsettled at
\* any time; while the handle of the item is set, a resolve() on it waits for
\* that handle and starts no provider call; the handle is installed only when
\* it was empty, with a resolution started through the item, and is cleared
\* only by the completion of the resolution that installed it
C16_SingleSlotHandle ==
  /\ [](\A i \in DOMAIN heap : Cardinality(UnsettledOf(i)) <= 1)
  /\ [][\A c \in CallIds, i \in DOMAIN heap :
          (RunsBody(c, i) /\ heap[i].currentResolve # None) =>
          /\ promises' = promises
          /\ calls'[c].pc = "await40"
          /\ calls'[c].awaiting = heap[i].currentResolve]_vars
  /\ [][\A i \in DOMAIN heap :
          heap'[i].currentResolve # heap[i].currentResolve =>
          \/ /\ heap[i].currentResolve = None
             /\ heap'[i].currentResolve = Len(promises')
             /\ Len(promises') = Len(promises) + 1
             /\ promises'[Len(promises')].item = i
          \/ /\ heap'[i].currentResolve = None
             /\ promises[heap[i].currentResolve].item = i
             /\ promises[heap[i].currentResolve].state = "settled"
             /\ promises'[heap[i].currentResolve].state = "cleared"]_vars

\* two calls waited for the resolution a third one had started through the
\* item; it settled, the handle was cleared, and only one provider call was made
C16_Witness ==
  \E i \in DOMAIN heap :
    /\ Cardinality(InvocationsOf(i)) = 1
    /\ \A p \in InvocationsOf(i) : promises[p].state = "cleared" /\ ~promises[p].failed
    /\ heap[i].currentResolve = None
    /\ Cardinality({c \in CallIds : calls[c].item = i /\ calls[c].joined
                                      /\ calls[c].pc = "returned"}) >= 2

\* call c comes back from the wait of line 40 in this step, its token cancelled
ReturnsFromWaitCancelled(c) ==
  /\ calls[c].pc = "await40"
  /\ calls[c].cancelled
  /\ promises[calls[c].awaiting].state = "cleared"
  /\ calls'[c] # calls[c]

\* call c is issued in this step with its token already cancelled, on an
\* unresolved item with nothing in flight whose provider can resolve
IssuedCancelled(c) ==
  /\ calls[c].pc = "idle" /\ calls[c].cancelled
  /\ calls'[c].pc # "idle"
  /\ LET item == heap[calls'[c].item]
     IN /\ providers[item.provider].canResolve
        /\ item.currentResolve = None
        /\ ~item.isResolved

\* C17: the token is looked at only after the wait on an in-flight
\* resolution: a call that waited and finds its token cancelled returns
\* without calling the provider, also when the resolution failed; a call
\* issued with a cancelled token still starts the provider call; cancelling a
\* token changes no resolution, and a provider call that succeeds is applied to
\* the hint and sets the resolved flag whether or not the token of the call
\* that started it was cancelled meanwhile
C17_CancellationOnlyAfterWait ==
  /\ [][\A c \in CallIds : ReturnsFromWaitCancelled(c) =>
          /\ calls'[c].pc = "returned"
          /\ UNCHANGED <<promises, heap, hints>>]_vars
  /\ [][\A c \in CallIds : IssuedCancelled(c) =>
          /\ Len(promises') = Len(promises) + 1
          /\ promises'[Len(promises')].by = c]_vars
  /\ [][\A c \in CallIds : (calls'[c].cancelled /\ ~calls[c].cancelled) =>
          UNCHANGED <<promises, heap, hints>>]_vars
  /\ [][\A p \in DOMAIN promises :
          /\ promises[p].state = "pending" =>
               promises'[p].state \in {"pending", "settled"}
          /\ SucceedsNow(p) =>
               /\ hints'[heap[promises[p].item].hint] =
                    ApplyResolve(hints[heap[promises[p].item].hint], promises'[p].result)
               /\ heap'[promises[p].item].isResolved]_vars

\* a call that waited on a resolution that failed found its token cancelled
\* and returned without a second provider call at that time; a later call
\* started a provider call, its token was cancelled while the call was in
\* flight, and the result was applied all the same
C17_Witness ==
  \E i \in DOMAIN heap : \E c, d \in CallIds :
    /\ calls[c].item = i /\ calls[c].pc = "returned"
    /\ calls[c].joined /\ calls[c].cancelled
    /\ promises[1].item = i /\ promises[1].failed
    /\ Len(promises) = 2
    /\ promises[2].item = i /\ promises[2].by = d
    /\ promises[2].state = "settled" /\ ~promises[2].failed
    /\ promises[2].result.label = "L1"
    /\ calls[d].pc = "await50" /\ calls[d].cancelled
    /\ heap[i].isResolved
    /\ hints[heap[i].hint].label = "L1"

\* with() makes a copy in this step
CopiesNow == Len(heap') = Len(heap) + 1

\* the resolved flag and the handle of an item
ResolutionOf(item) == <<item.isResolved, item.currentResolve>>

\* C18: with({anchor}) returns a new item with the hint and the provider of
\* the original and the anchor given, whose resolved flag and handle are the
\* original's at that moment; it changes no item that exists; and a later
\* change of the flag or the handle of one item changes those of no other
C18_WithCopiesByValue ==
  /\ [][CopiesNow =>
          /\ \A i \in DOMAIN heap : heap'[i] = heap[i]
          /\ \E i \in DOMAIN heap :
               LET copy == heap'[Len(heap')]
               IN /\ copy.hint = heap[i].hint
                  /\ copy.provider = heap[i].provider
                  /\ copy.anchor \in DeltaAnchors
                  /\ ResolutionOf(copy) = ResolutionOf(heap[i])]_vars
  /\ [][\A i, j \in DOMAIN heap :
          (i # j /\ ResolutionOf(heap'[i]) # ResolutionOf(heap[i])) =>
          ResolutionOf(heap'[j]) = ResolutionOf(heap[j])]_vars
  /\ [][\A i \in DOMAIN heap : heap'[i].anchor = heap[i].anchor]_vars

\* a copy made during a resolution still has the flag and the handle it was
\* made with after the original's resolution succeeded, the original's flag
\* was set and its handle cleared
C18_Witness ==
  \E i, j \in DOMAIN heap :
    /\ i # j
    /\ heap[i].hint = heap[j].hint
    /\ heap[i].anchor # heap[j].anchor
    /\ heap[i].isResolved /\ heap[i].currentResolve = None
    /\ ~heap[j].isResolved /\ heap[j].currentResolve # None
    /\ promises[heap[j].currentResolve].item = i
    /\ promises[heap[j].currentResolve].state = "cleared"

\* the range with the given endpoints, as they are
RangeOf(s, e) == [sl |-> s[1], sc |-> s[2], el |-> e[1], ec |-> e[2]]

\* the start of range r is not after its end
IsOrdered(r) == PositionCompare(GetStartPosition(r), GetEndPosition(r)) <= 0

\* C19: the anchor range of a hint has the hint's validated position as one
\* endpoint: from the span's start to the position when the direction is
\* 'after', from the position to the span's end when it is 'before'; the
\* start is never after the end, so that no endpoints are swapped, for the
\* span of a word and for the span of a token alike
C19_AnchorRangeEndsAtPosition ==
  \A k \in DOMAIN items :
    LET i == items[k]
        anchor == heap[i].anchor
        position == PlacedPosition(i)
        span == PlacedSpan(i)
    IN /\ IsOrdered(span)
       /\ anchor.direction = "after" =>
            /\ PositionCompare(GetStartPosition(span), position) <= 0
            /\ anchor.range = RangeOf(GetStartPosition(span), position)
       /\ anchor.direction = "before" =>
            /\ PositionCompare(position, GetEndPosition(span)) <= 0
            /\ anchor.range = RangeOf(position, GetEndPosition(span))
       /\ IsOrdered(anchor.range)

\* a hint behind a one-character token that gave way to the token before it:
\* the anchor runs from that token's start to the position
C19_Witness ==
  \E k \in DOMAIN items :
    LET i == items[k]
    IN /\ ~HasWordAt(model, PlacedPosition(i))
       /\ PlacedSpan(i) # TokenSpan(PlacedPosition(i)[1], PlacedTokens(i), PlacedIndex(i))
       /\ heap[i].anchor.direction = "after"
       /\ heap[i].anchor.range =
            RangeOf(GetStartPosition(PlacedSpan(i)), PlacedPosition(i))
       /\ GetEndPosition(PlacedSpan(i)) = PlacedPosition(i)

\* the lists with hints that provider p returned during create
NonEmptyListsOf(p) ==
  {l \in DOMAIN lists : lists[l].provider = p /\ lists[l].hints # <<>>}

\* C20: the fragment set subscribes to a provider's onDidChangeInlayHints
\* once per list with hints the provider returned during create: one firing
\* of the event of a provider that returned k such lists calls every listener
\* of onDidReceiveProviderSignal k times, and a provider whose calls all failed
\* or returned no hints is not subscribed, its firings call no listener
C20_OneSubscriptionPerList ==
  /\ [](frag = "live" =>
          \A p \in Providers :
            SubsOf(p) = IF providers[p].canSignal
                          THEN Cardinality(NonEmptyListsOf(p)) ELSE 0)
  /\ [][\A p \in Providers :
          (frag = "live" /\ fires'[p] = fires[p] + 1) =>
          received' = received + Cardinality(NonEmptyListsOf(p)) * listeners]_vars

\* a provider that returned two lists with hints fired once and the listener
\* was called twice; a provider without hints fired and it was not called
C20_Witness ==
  /\ frag = "live"
  /\ listeners = 1
  /\ received = 2
  /\ \E p, q \in Providers :
       /\ Cardinality(NonEmptyListsOf(p)) = 2 /\ fires[p] = 1
       /\ NonEmptyListsOf(q) = {} /\ fires[q] = 1

====
